---- MODULE Spec2Model ----
(***************************************************************************)
(* Model of stackdump/finite-model: the declarative Petri-net builder      *)
(* (package model: MetaModel, Node, Arc, VarMap) and its user-facing       *)
(* wrapper (package dsl: instance, StateMachine, Marshal).                 *)
(*                                                                         *)
(* One MetaModel is held in the state together with what its caller holds: *)
(* the node handles returned by Place/Transition and the last snapshot     *)
(* returned by PTNet/StateMachine.  A panic is modelled as the call ending *)
(* with an error message while every write made before the panic stays in  *)
(* place.                                                                  *)
(***************************************************************************)
EXTENDS Integers, Sequences, FiniteSets, TLC

(***************************************************************************)
(* 64-bit numbers.  A number is the pair <<q, r>> standing for             *)
(* q * 2^62 + r with r small, so that 2^63 is <<2, 0>>, 2^64 is <<4, 0>>   *)
(* and the largest uint64 is <<4, -1>>.  The arithmetic below is exact on  *)
(* these pairs; the pair is unique as long as |r| < 2^61.                 *)
(***************************************************************************)
U(n) == <<0, n>>

Zero == U(0)

Two63 == <<2, 0>>

MinInt64 == <<-2, 0>>

MaxUint64 == <<4, -1>>

Less(x, y) == x[1] < y[1] \/ (x[1] = y[1] /\ x[2] < y[2])

\* the mathematical negation of a number (no wrap-around)
Minus(x) == <<0 - x[1], 0 - x[2]>>

\* int64(u) for u of type uint64: values from 2^63 on wrap to u - 2^64
Int64OfUint64(u) == IF Less(u, Two63) THEN u ELSE <<u[1] - 4, u[2]>>

\* 0 - x in int64: the negation, which wraps at the least int64
Neg64(x) == IF x = MinInt64 THEN MinInt64 ELSE Minus(x)

\* 0 - u in uint64: 2^64 - u, and 0 for u = 0
NegU64(u) == IF u = Zero THEN Zero ELSE <<4 - u[1], 0 - u[2]>>

(***************************************************************************)
(* Node and arc kinds, var kinds.                                          *)
(***************************************************************************)
PLACE == 0

TRANSITION == 1

ARC == 0

INHIBITOR == 1

InitialVar == 0

WeightVar == 1

CapacityVar == 2

\* outcomes of a call: OK, or the message of the panic that ended it
OK == "ok"

ErrFrozen == "frozen model cannot be altered"

ErrBadArc == "bad arc declaration"

ErrInhibitor == "Inhibitor Arcs must Target Transitions"

ErrIndex == "index out of range"

ErrBadVar == "bad dsl var"

ErrUnbound == "unbound"

ErrNotFrozen == "expected frozen model"

(***************************************************************************)
(* State.                                                                  *)
(***************************************************************************)
VARIABLES
    Schema,       \* MetaModel.Schema
    Places,       \* MetaModel.Places: label -> place (Initial, Capacity, Offset)
    Transitions,  \* MetaModel.Transitions: label -> address of a transition in heap
    heap,         \* the transition objects (Role, Delta), by address 1..Len(heap)
    VectorSize,   \* MetaModel.VectorSize
    mvars,        \* MetaModel.vars
    arcs,         \* MetaModel.arcs
    frozen,       \* MetaModel.frozen
    imported,     \* TRUE for a model made by FromAny (a bare MetaModel, no dsl instance)
    nodes,        \* the node handles the caller got from Place and Transition
    net,          \* the last snapshot returned by PTNet() or StateMachine()
    calls         \* the number of setter, Bind and direct AppendArc calls made so far

vars == <<Schema, Places, Transitions, heap, VectorSize, mvars, arcs, frozen,
          imported, nodes, net, calls>>

\* a slice: nil (IsNil) or an array of int64
NilSlice == [IsNil |-> TRUE, A |-> <<>>]

\* make([]int64, n)
RECURSIVE Zeros(_)
Zeros(n) == IF n = 0 THEN <<>> ELSE Append(Zeros(n - 1), Zero)

Make(n) == [IsNil |-> FALSE, A |-> Zeros(n)]

NoNet == [Has |-> FALSE, Places |-> <<>>, Transitions |-> <<>>]

\* m[k] = v on a Go map
MapPut(m, k, v) == [x \in (DOMAIN m) \cup {k} |-> IF x = k THEN v ELSE m[x]]

(***************************************************************************)
(* Declarations: MetaModel.Place, MetaModel.Transition, MetaModel.Role,    *)
(* Node.TX, Node.Inhibitor (both through MetaModel.AppendArc).             *)
(***************************************************************************)
\* the handle returned by Place: it points to the place just stored
PlaceNode(label, offset) ==
    [Label |-> label, nodeType |-> PLACE, Offset |-> offset, at |-> 0]

\* the handle returned by Transition: it points to the transition object at `at`
TransitionNode(label, at) ==
    [Label |-> label, nodeType |-> TRANSITION, Offset |-> 0, at |-> at]

IsPlace(n) == n.nodeType = PLACE

IsTransition(n) == n.nodeType = TRANSITION

\* m.assertNotFrozen(): how it ends on the current model
assertNotFrozen == IF frozen THEN ErrFrozen ELSE OK

\* m.AssertFrozen(): how it ends on a model whose frozen flag is f
AssertFrozen(f) == IF f THEN OK ELSE ErrNotFrozen

Place(label, place) ==
    /\ IF assertNotFrozen = OK
       THEN /\ Places' = MapPut(Places, label, [place EXCEPT !.Offset = VectorSize])
            /\ VectorSize' = VectorSize + 1
            /\ nodes' = nodes \cup {PlaceNode(label, VectorSize)}
       ELSE /\ UNCHANGED <<Places, VectorSize, nodes>>
    /\ UNCHANGED <<Schema, Transitions, heap, mvars, arcs, frozen, imported, net>>

Transition(label, transition) ==
    /\ IF assertNotFrozen = OK
       THEN /\ heap' = Append(heap, transition)
            /\ Transitions' = MapPut(Transitions, label, Len(heap) + 1)
            /\ nodes' = nodes \cup {TransitionNode(label, Len(heap) + 1)}
       ELSE /\ UNCHANGED <<Transitions, heap, nodes>>
    /\ UNCHANGED <<Schema, Places, VectorSize, mvars, arcs, frozen, imported, net>>

Role(label) ==
    /\ UNCHANGED <<Schema, Places, Transitions, heap, VectorSize, mvars, arcs, frozen,
                   imported, nodes, net>>

\* m.arcs = append(m.arcs, a)
AppendArc(as, a) == Append(as, a)

\* a handle's arcFactory is the AppendArc of the model that made the handle:
\* once the caller has gone on to an imported model, the arcs declared through
\* the handles go to the ledger of the model it left, not to arcs
TX(n, val, cell) ==
    /\ arcs' = IF imported THEN arcs
               ELSE AppendArc(arcs, [Source |-> n, Target |-> cell, Weight |-> val,
                                     Type |-> ARC])
    /\ UNCHANGED <<Schema, Places, Transitions, heap, VectorSize, mvars, frozen, imported,
                   nodes, net>>

\* InhibitorGuard that fails only a transition receiver with a place target
InhibitorGuardLax(n, target) ==
    IF IsTransition(n) /\ IsPlace(target) THEN ErrInhibitor ELSE OK

\* the orientation test of Inhibitor: how it ends for receiver n and target
InhibitorGuard(n, target) ==
    IF IsTransition(n) \/ IsPlace(target) THEN ErrInhibitor ELSE OK

Inhibitor(n, weight, target) ==
    /\ IF InhibitorGuard(n, target) # OK \/ imported
       THEN /\ UNCHANGED arcs
       ELSE /\ arcs' = AppendArc(arcs, [Source |-> n, Target |-> target, Weight |-> weight,
                                         Type |-> INHIBITOR])
    /\ UNCHANGED <<Schema, Places, Transitions, heap, VectorSize, mvars, frozen, imported,
                   nodes, net>>

\* m.AppendArc(a) called on the model itself, with an Arc the caller built from
\* the handles it holds
AppendArcCall(a) ==
    /\ arcs' = AppendArc(arcs, a)
    /\ UNCHANGED <<Schema, Places, Transitions, heap, VectorSize, mvars, frozen, imported,
                   nodes, net>>

(***************************************************************************)
(* MetaModel.Freeze.                                                       *)
(***************************************************************************)
\* Reindex with the Deltas sized by the number of places held in the map
ReindexByPlaces(h, T, size) ==
    [at \in DOMAIN h |->
        IF \E k \in DOMAIN T : T[k] = at
        THEN [h[at] EXCEPT !.Delta = Make(Cardinality(DOMAIN Places))]
        ELSE h[at]]

\* first loop of Freeze: every transition of the map gets a fresh zero-filled Delta
Reindex(h, T, size) ==
    [at \in DOMAIN h |->
        IF \E k \in DOMAIN T : T[k] = at THEN [h[at] EXCEPT !.Delta = Make(size)] ELSE h[at]]

\* the value an arc place -> transition leaves in the slot: 0 - int64(a.Weight)
ConsumeDelta(weight) == Neg64(Int64OfUint64(weight))

\* the value an arc transition -> place leaves in the slot: int64(a.Weight)
ProduceDelta(weight) == Int64OfUint64(weight)

\* t.Delta[offset] = x on the transition object at `at`; FALSE when out of range
InRange(h, at, offset) == offset + 1 <= Len(h[at].Delta.A)

\* Store that adds x to the slot instead of replacing its content
StoreAdd(h, at, offset, x) ==
    [o \in DOMAIN h |->
        IF o = at THEN [h[o] EXCEPT !.Delta.A[offset + 1] = <<@[1] + x[1], @[2] + x[2]>>]
        ELSE h[o]]

Store(h, at, offset, x) ==
    [o \in DOMAIN h |-> IF o = at THEN [h[o] EXCEPT !.Delta.A[offset + 1] = x] ELSE h[o]]

\* second loop of Freeze, from arc i on: the heap it leaves and how it ended
RECURSIVE FoldArcs(_, _, _)
FoldArcs(h, as, i) ==
    IF i > Len(as) THEN [heap |-> h, err |-> OK]
    ELSE LET a == as[i] IN
         IF IsPlace(a.Source) /\ IsTransition(a.Target)
         THEN IF InRange(h, a.Target.at, a.Source.Offset)
              THEN FoldArcs(Store(h, a.Target.at, a.Source.Offset, ConsumeDelta(a.Weight)),
                            as, i + 1)
              ELSE [heap |-> h, err |-> ErrIndex]
         ELSE IF IsPlace(a.Target) /\ IsTransition(a.Source)
              THEN IF InRange(h, a.Source.at, a.Target.Offset)
                   THEN FoldArcs(Store(h, a.Source.at, a.Target.Offset, ProduceDelta(a.Weight)),
                                 as, i + 1)
                   ELSE [heap |-> h, err |-> ErrIndex]
              ELSE [heap |-> h, err |-> ErrBadArc]

\* Freeze on the current model: the heap it leaves and how it ended
FreezeResult == FoldArcs(Reindex(heap, Transitions, VectorSize), arcs, 1)

\* MarkFrozen that clears the flag when the call ended in a panic
MarkFrozenReset(was, err) == err = OK

\* m.frozen = true is the last statement of Freeze: a call that ended in a panic
\* did not get there and leaves the flag as it was
MarkFrozen(was, err) == IF err = OK THEN TRUE ELSE was

\* the addresses whose Delta the first loop of Freeze replaces
Reallocated == {Transitions[k] : k \in DOMAIN Transitions}

\* Detach that leaves the snapshot's slices on the model's transitions
DetachNone(n, gone) == n

\* a snapshot keeps the slice it copied: when the model's transition gets a new
\* array the snapshot's slice no longer shares it (at = 0); while it shares the
\* array, it sees what is written to it
Detach(n, gone) ==
    [n EXCEPT !.Transitions =
        [k \in DOMAIN n.Transitions |->
            IF n.Transitions[k].at \in gone
            THEN [n.Transitions[k] EXCEPT !.at = 0]
            ELSE n.Transitions[k]]]

Resync(n, h) ==
    [n EXCEPT !.Transitions =
        [k \in DOMAIN n.Transitions |->
            IF n.Transitions[k].at # 0
            THEN [n.Transitions[k] EXCEPT !.Delta = h[n.Transitions[k].at].Delta]
            ELSE n.Transitions[k]]]

\* the snapshot n the caller holds, as it reads after a call that gave the
\* transitions at `gone` new arrays and left the heap h
Held(n, gone, h) == Resync(Detach(n, gone), h)

Freeze ==
    LET r == FreezeResult IN
    /\ heap' = r.heap
    /\ frozen' = MarkFrozen(frozen, r.err)
    /\ net' = Held(net, Reallocated, r.heap)
    /\ UNCHANGED <<Schema, Places, Transitions, VectorSize, mvars, arcs, imported, nodes>>

(***************************************************************************)
(* MetaModel.PTNet and the export: ToAny, instance.Marshal, FromAny.       *)
(***************************************************************************)
\* the copy loop of PTNet: places by value, transitions by value with the
\* Delta slice of the model's transition (at: the object whose array it shares)
Snapshot(P, T, h) ==
    [Has |-> TRUE,
     Places |-> P,
     Transitions |-> [k \in DOMAIN T |->
                        [Role |-> h[T[k]].Role, Delta |-> h[T[k]].Delta, at |-> T[k]]]]

PTNet ==
    LET r == IF frozen THEN [heap |-> heap, err |-> OK] ELSE FreezeResult
        gone == IF frozen THEN {} ELSE Reallocated
    IN
    /\ heap' = r.heap
    /\ frozen' = MarkFrozen(frozen, r.err)
    /\ net' = IF r.err = OK
              THEN Snapshot(Places, Transitions, r.heap)
              ELSE Held(net, gone, r.heap)
    /\ UNCHANGED <<Schema, Places, Transitions, VectorSize, mvars, arcs, imported, nodes>>

\* json.Marshal(m): the schema, the places and the transitions by value
Encode(schema, P, T, h) ==
    [schema |-> schema,
     places |-> P,
     transitions |-> [k \in DOMAIN T |-> [Role |-> h[T[k]].Role, Delta |-> h[T[k]].Delta]]]

\* the payload ToAny returns on the current model
ToAnyResult == Encode(Schema, Places, Transitions, heap)

ToAny ==
    /\ UNCHANGED <<Schema, Places, Transitions, heap, VectorSize, mvars, arcs, frozen,
                   imported, nodes, net>>

\* Marshal() on the current model: Freeze when not frozen, AssertFrozen, ToAny.
\* How it ended and, when it ended well, the payload
MarshalResult ==
    LET r == IF frozen THEN [heap |-> heap, err |-> OK] ELSE FreezeResult
        a == AssertFrozen(MarkFrozen(frozen, r.err))
    IN
    IF r.err # OK THEN [err |-> r.err, heap |-> r.heap]
    ELSE IF a # OK THEN [err |-> a, heap |-> r.heap]
    ELSE [err |-> OK, heap |-> r.heap,
          payload |-> Encode(Schema, Places, Transitions, r.heap)]

Marshal ==
    LET r == MarshalResult
        gone == IF frozen THEN {} ELSE Reallocated
    IN
    /\ ~imported
    /\ heap' = r.heap
    /\ frozen' = MarkFrozen(frozen, r.err)
    /\ net' = Held(net, gone, r.heap)
    /\ UNCHANGED <<Schema, Places, Transitions, VectorSize, mvars, arcs, imported, nodes>>

\* the keys of a decoded object, one after the other
RECURSIVE Keys(_)
Keys(S) == IF S = {} THEN <<>>
           ELSE LET k == CHOOSE x \in S : TRUE IN <<k>> \o Keys(S \ {k})

\* the position of key k in the sequence ks
Index(ks, k) == CHOOSE i \in 1..Len(ks) : ks[i] = k

\* json.Unmarshal into a new MetaModel: a new transition object per key
DecodeHeap(a) ==
    LET ks == Keys(DOMAIN a.transitions) IN
    [i \in 1..Len(ks) |-> a.transitions[ks[i]]]

DecodeTransitions(a) ==
    LET ks == Keys(DOMAIN a.transitions) IN
    [k \in DOMAIN a.transitions |-> Index(ks, k)]

\* the MetaModel FromAny returns for payload a: frozen, VectorSize 0 (it is not
\* part of the payload), no arcs, no vars
FromAnyResult(a) ==
    [Schema |-> a.schema,
     Places |-> a.places,
     Transitions |-> DecodeTransitions(a),
     heap |-> DecodeHeap(a),
     VectorSize |-> 0,
     mvars |-> <<>>,
     arcs |-> <<>>,
     frozen |-> TRUE]

\* the transition objects of the model the handles were made on: all of the
\* heap, but for the objects an imported model decoded for itself (the last
\* ones allocated, one per transition of its map)
Base == IF imported THEN SubSeq(heap, 1, Len(heap) - Cardinality(DOMAIN Transitions))
        ELSE heap

\* the addresses of a decoded model's transitions when its objects are
\* allocated behind n existing ones
Rebase(T, n) == [k \in DOMAIN T |-> T[k] + n]

\* the caller goes on with the model FromAny returns.  It still holds the
\* handles and the snapshot of the model it leaves, and the transition objects
\* they point to stay; the objects of an imported model it leaves are dropped
FromAny(a) ==
    LET m == FromAnyResult(a) IN
    /\ Schema' = m.Schema
    /\ Places' = m.Places
    /\ Transitions' = Rebase(m.Transitions, Len(Base))
    /\ heap' = Base \o m.heap
    /\ VectorSize' = m.VectorSize
    /\ mvars' = m.mvars
    /\ arcs' = m.arcs
    /\ frozen' = m.frozen
    /\ imported' = TRUE
    /\ nodes' = nodes
    /\ net' = Detach(net, (DOMAIN heap) \ (DOMAIN Base))

(***************************************************************************)
(* Vars: MetaModel.NewVar / instance.Var, and the VarMap setters.          *)
(***************************************************************************)
\* new(VarMap): every field zero, no binding
EmptyVar == [varType |-> InitialVar, Source |-> "", Target |-> "", bound |-> FALSE,
             val |-> Zero]

NewVar ==
    /\ mvars' = Append(mvars, EmptyVar)
    /\ UNCHANGED <<Schema, Places, Transitions, heap, VectorSize, arcs, frozen, imported,
                   nodes, net>>

SetVar(i, v) ==
    /\ mvars' = [mvars EXCEPT ![i] = v]
    /\ UNCHANGED <<Schema, Places, Transitions, heap, VectorSize, arcs, frozen, imported,
                   nodes, net>>

Capacity(i, t) ==
    SetVar(i, [mvars[i] EXCEPT !.varType = CapacityVar, !.Source = t])

Initial(i, t) ==
    SetVar(i, [mvars[i] EXCEPT !.varType = InitialVar, !.Target = t])

Weight(i, n0, n1) ==
    SetVar(i, [mvars[i] EXCEPT !.varType = WeightVar, !.Source = n0, !.Target = n1])

\* Bind(func() uint64 { return val })
Bind(i, val) ==
    SetVar(i, [mvars[i] EXCEPT !.bound = TRUE, !.val = val])

(***************************************************************************)
(* instance.StateMachine: Freeze, PTNet, then the vars applied in order.   *)
(***************************************************************************)
\* GetVars with the vars in the reverse order
GetVarsReversed == [i \in 1..Len(mvars) |-> mvars[Len(mvars) + 1 - i]]

\* m.vars, in the order NewVar appended them
GetVars == mvars

\* IsBound that takes every var for bound
IsBoundAlways(v) == TRUE

\* v.GetVal() goes through only on a var that Bind was called on
IsBound(v) == v.bound

\* PatchCapacity that writes the value to the Initial field as well
PatchCapacityBoth(P, v) == [P EXCEPT ![v.Source].Capacity = v.val, ![v.Source].Initial = v.val]

\* the Capacity case: the place is looked up under v.Source
PatchCapacity(P, v) == [P EXCEPT ![v.Source].Capacity = v.val]

\* PatchInitial that writes the Capacity field
PatchInitialAsCapacity(P, v) == [P EXCEPT ![v.Target].Capacity = v.val]

\* the Initial case: the place is looked up under v.Target
PatchInitial(P, v) == [P EXCEPT ![v.Target].Initial = v.val]

\* what the Weight case writes for place(source) -> transition(target): int64(0 - val)
WeightConsume(val) == Int64OfUint64(NegU64(val))

\* what the Weight case writes for transition(source) -> place(target): int64(0 + val)
WeightProduce(val) == Int64OfUint64(val)

\* the loop over GetVars from var i on. P: net.Places. The net's transitions share
\* their Delta arrays with the model's, so the writes land in the heap h.
RECURSIVE ApplyVars(_, _, _, _, _)
ApplyVars(P, T, h, vs, i) ==
    IF i > Len(vs) THEN [Places |-> P, heap |-> h, err |-> OK]
    ELSE LET v == vs[i]
             stop(e) == [Places |-> P, heap |-> h, err |-> e]
         IN
         IF v.varType = CapacityVar
         THEN IF v.Source \notin DOMAIN P THEN stop(ErrBadVar)
              ELSE IF ~IsBound(v) THEN stop(ErrUnbound)
              ELSE ApplyVars(PatchCapacity(P, v), T, h, vs, i + 1)
         ELSE IF v.varType = WeightVar
         THEN IF v.Source \notin DOMAIN T
              THEN IF v.Target \notin DOMAIN T THEN stop(ErrBadVar)
                   ELSE IF v.Source \notin DOMAIN P THEN stop(ErrBadVar)
                   ELSE IF ~IsBound(v) THEN stop(ErrUnbound)
                   ELSE IF ~InRange(h, T[v.Target], P[v.Source].Offset) THEN stop(ErrIndex)
                   ELSE ApplyVars(P, T, Store(h, T[v.Target], P[v.Source].Offset,
                                              WeightConsume(v.val)), vs, i + 1)
              ELSE IF v.Target \notin DOMAIN P THEN stop(ErrBadVar)
                   ELSE IF ~IsBound(v) THEN stop(ErrUnbound)
                   ELSE IF ~InRange(h, T[v.Source], P[v.Target].Offset) THEN stop(ErrIndex)
                   ELSE ApplyVars(P, T, Store(h, T[v.Source], P[v.Target].Offset,
                                              WeightProduce(v.val)), vs, i + 1)
         ELSE IF v.Target \notin DOMAIN P THEN stop(ErrBadVar)
              ELSE IF ~IsBound(v) THEN stop(ErrUnbound)
              ELSE ApplyVars(PatchInitial(P, v), T, h, vs, i + 1)

\* StateMachine() on the current model: the heap it leaves, how it ended and,
\* when it ended well, the places and transitions of the net it hands over
StateMachineResult ==
    LET f == FreezeResult
        o == ApplyVars(Places, Transitions, f.heap, GetVars, 1)
    IN
    IF f.err = OK
    THEN [heap |-> o.heap, err |-> o.err, froze |-> TRUE,
          net |-> Snapshot(o.Places, Transitions, o.heap)]
    ELSE [heap |-> f.heap, err |-> f.err, froze |-> FALSE, net |-> NoNet]

StateMachine ==
    LET r == StateMachineResult IN
    /\ ~imported
    /\ heap' = r.heap
    /\ frozen' = MarkFrozen(frozen, IF r.froze THEN OK ELSE r.err)
    /\ net' = IF r.err = OK THEN r.net ELSE Held(net, Reallocated, r.heap)
    /\ UNCHANGED <<Schema, Places, Transitions, VectorSize, mvars, arcs, imported, nodes>>

(***************************************************************************)
(* The calls of a caller who builds a model from model.New on: the         *)
(* declarations, Freeze and the exports.  Arcs reach AppendArc through the  *)
(* handles (TX, Inhibitor); no vars are created here.  The calls on vars    *)
(* and the direct calls of AppendArc are in the second specification.       *)
(***************************************************************************)
MaxNodes == 3

MaxArcs == 2

Labels == {"a", "b"}

Roles == {"default"}

Cells == {[Initial |-> U(1), Capacity |-> U(0), Offset |-> 0]}

Defuns == {[Role |-> r, Delta |-> NilSlice] : r \in Roles}

\* arc weights: two small ones and the largest uint64
Weights == {U(1), U(2), MaxUint64}

Init ==
    /\ Schema = "Counter"
    /\ Places = <<>>
    /\ Transitions = <<>>
    /\ heap = <<>>
    /\ VectorSize = 0
    /\ mvars = <<>>
    /\ arcs = <<>>
    /\ frozen = FALSE
    /\ imported = FALSE
    /\ nodes = {}
    /\ net = NoNet
    /\ calls = 0

\* the number of Place and Transition calls that went through
Declared == VectorSize + Len(heap)

Next ==
    \/ \E l \in Labels, c \in Cells :
           (frozen \/ Declared < MaxNodes) /\ Place(l, c) /\ UNCHANGED calls
    \/ \E l \in Labels, d \in Defuns :
           (frozen \/ Declared < MaxNodes) /\ Transition(l, d) /\ UNCHANGED calls
    \/ \E l \in Roles : Role(l) /\ UNCHANGED calls
    \/ \E n \in nodes, c \in nodes, w \in Weights :
           Len(arcs) < MaxArcs /\ TX(n, w, c) /\ UNCHANGED calls
    \/ \E n \in nodes, c \in nodes, w \in Weights :
           /\ Len(arcs) < MaxArcs \/ InhibitorGuard(n, c) # OK
           /\ Inhibitor(n, w, c) /\ UNCHANGED calls
    \/ Freeze /\ UNCHANGED calls
    \/ PTNet /\ UNCHANGED calls
    \/ ToAny /\ UNCHANGED calls
    \/ Marshal /\ UNCHANGED calls
    \/ StateMachine /\ UNCHANGED calls
    \/ \E a \in {ToAnyResult} : FromAny(a) /\ UNCHANGED calls

Spec == Init /\ [][Next]_vars

(***************************************************************************)
(* The calls of a caller who got the counter model of the test from        *)
(* NewModel("Counter", modelDef): it makes vars, calls their setters and    *)
(* Bind any number of times (MaxCalls in all), calls AppendArc itself, and  *)
(* does the same on the models it imports.                                  *)
(***************************************************************************)
MaxVars == 2

MaxCalls == 4

MaxImportVars == 1

\* the names given to Capacity and Initial: a place of the model and a name the
\* model does not declare
Names == {"00", "02"}

\* the (source, target) pairs given to Weight: transition -> place, place ->
\* transition, no transition on either side, and an undeclared name for the
\* place on either side
WeightRefs == {<<"INC0", "00">>, <<"00", "INC0">>, <<"00", "00">>,
               <<"INC0", "02">>, <<"02", "INC0">>}

\* the values the bound functions return
Values == {U(1), U(2), U(5), MaxUint64}

dec0 == TransitionNode("DEC0", 1)

dec1 == TransitionNode("DEC1", 2)

p00 == PlaceNode("00", 0)

p01 == PlaceNode("01", 1)

inc0 == TransitionNode("INC0", 3)

inc1 == TransitionNode("INC1", 4)

Arc(source, weight, target) ==
    [Source |-> source, Target |-> target, Weight |-> weight, Type |-> ARC]

InitCounter ==
    /\ Schema = "Counter"
    /\ Places = [k \in {"00", "01"} |->
                    IF k = "00" THEN [Initial |-> U(0), Capacity |-> U(0), Offset |-> 0]
                                ELSE [Initial |-> U(1), Capacity |-> U(0), Offset |-> 1]]
    /\ Transitions = [k \in {"DEC0", "DEC1", "INC0", "INC1"} |->
                        IF k = "DEC0" THEN 1 ELSE IF k = "DEC1" THEN 2
                        ELSE IF k = "INC0" THEN 3 ELSE 4]
    /\ heap = [at \in 1..4 |-> [Role |-> "default", Delta |-> NilSlice]]
    /\ VectorSize = 2
    /\ mvars = <<>>
    /\ arcs = <<Arc(p00, U(1), dec0), Arc(p01, U(1), dec1),
                Arc(inc0, U(1), p00), Arc(inc1, U(1), p01)>>
    /\ frozen = FALSE
    /\ imported = FALSE
    /\ nodes = {dec0, dec1, p00, p01, inc0, inc1}
    /\ net = NoNet
    /\ calls = 0

\* the arcs given to AppendArc directly
ArcCalls == {Arc(p00, U(2), inc0)}

NextCounter ==
    \/ Len(mvars) < (IF imported THEN MaxImportVars ELSE MaxVars) /\ NewVar /\ UNCHANGED calls
    \/ \E i \in DOMAIN mvars, t \in Names :
           calls < MaxCalls /\ Capacity(i, t) /\ calls' = calls + 1
    \/ \E i \in DOMAIN mvars, t \in Names :
           calls < MaxCalls /\ Initial(i, t) /\ calls' = calls + 1
    \/ \E i \in DOMAIN mvars, n \in WeightRefs :
           calls < MaxCalls /\ Weight(i, n[1], n[2]) /\ calls' = calls + 1
    \/ \E i \in DOMAIN mvars, v \in Values :
           calls < MaxCalls /\ Bind(i, v) /\ calls' = calls + 1
    \/ \E a \in ArcCalls : calls < MaxCalls /\ AppendArcCall(a) /\ calls' = calls + 1
    \/ StateMachine /\ UNCHANGED calls
    \/ Freeze /\ UNCHANGED calls
    \/ PTNet /\ UNCHANGED calls
    \/ ToAny /\ UNCHANGED calls
    \/ Marshal /\ UNCHANGED calls
    \/ \E a \in {ToAnyResult} : FromAny(a) /\ UNCHANGED calls

SpecCounter == InitCounter /\ [][NextCounter]_vars

(***************************************************************************)
(* Properties.                                                             *)
(***************************************************************************)
\* the transition object and the place offset an arc place -> transition or
\* transition -> place writes to
Slot(a) == IF IsPlace(a.Source) THEN <<a.Target.at, a.Source.Offset>>
           ELSE <<a.Source.at, a.Target.Offset>>

\* the content of a slot in heap h
At(h, slot) == h[slot[1]].Delta.A[slot[2] + 1]

\* every (place, transition) pair carries at most one arc
ArcsOnce == \A i, j \in DOMAIN arcs : i # j => Slot(arcs[i]) # Slot(arcs[j])

\* the slots of the transitions held in the map that no arc writes to
Untouched(h) ==
    {<<Transitions[k], o>> : k \in DOMAIN Transitions, o \in 0..(VectorSize - 1)}
        \ {Slot(arcs[i]) : i \in DOMAIN arcs}

\* C1: after Freeze on a built model, the place count (VectorSize) is the number
\* of distinct place identifiers declared, and the offsets of the places held
\* are exactly 0..place_count-1.
C1_PlaceCount ==
    (frozen /\ ~imported) =>
        /\ VectorSize = Cardinality(DOMAIN Places)
        /\ {Places[k].Offset : k \in DOMAIN Places} = 0..(VectorSize - 1)

\* C2: in every state after Freeze has completed on a built model, every
\* transition of the model has a Delta of length VectorSize, whatever is
\* called afterwards.
C2_DeltaLength ==
    (frozen /\ ~imported) =>
        \A k \in DOMAIN Transitions :
            /\ ~heap[Transitions[k]].Delta.IsNil
            /\ Len(heap[Transitions[k]].Delta.A) = VectorSize

C2_Witness ==
    /\ frozen /\ ~imported /\ net.Has
    /\ VectorSize = 2
    /\ Cardinality(DOMAIN Places) = 1
    /\ \E k \in DOMAIN Transitions : heap[Transitions[k]].Delta.A # Zeros(VectorSize)

\* Freeze has completed on the built model and nothing was written to the
\* Deltas since
Compiled == frozen /\ ~imported /\ FreezeResult.err = OK /\ heap = FreezeResult.heap

\* C3: after Freeze, when every (place, transition) pair carries at most one
\* arc, the slot of an arc place -> transition of weight w holds -w, the slot
\* of an arc transition -> place of weight w holds +w, and every other slot 0.
C3_ArcDelta ==
    (Compiled /\ ArcsOnce) =>
        /\ \A i \in DOMAIN arcs :
              At(heap, Slot(arcs[i])) =
                  IF IsPlace(arcs[i].Source) THEN Minus(arcs[i].Weight) ELSE arcs[i].Weight
        /\ \A slot \in Untouched(heap) : At(heap, slot) = Zero

\* The statement of C3 holds for the weights below 2^63.
ArcDeltaBelowTwo63 ==
    (Compiled /\ ArcsOnce /\ \A i \in DOMAIN arcs : Less(arcs[i].Weight, Two63)) =>
        /\ \A i \in DOMAIN arcs :
              At(heap, Slot(arcs[i])) =
                  IF IsPlace(arcs[i].Source) THEN Minus(arcs[i].Weight) ELSE arcs[i].Weight
        /\ \A slot \in Untouched(heap) : At(heap, slot) = Zero

\* what Freeze writes for one arc
Contribution(a) == IF IsPlace(a.Source) THEN ConsumeDelta(a.Weight) ELSE ProduceDelta(a.Weight)

\* arc i is the last arc of the ledger on its (place, transition) pair
LastOnSlot(i) == \A j \in DOMAIN arcs : j > i => Slot(arcs[j]) # Slot(arcs[i])

\* C4: with several arcs on the same (place, transition) pair, in either
\* direction, Freeze leaves in the slot what the arc declared last writes;
\* the weights are not summed.
C4_LastArcWins ==
    Compiled =>
        \A i \in DOMAIN arcs : LastOnSlot(i) => At(heap, Slot(arcs[i])) = Contribution(arcs[i])

C4_Witness ==
    /\ Compiled
    /\ \E i, j \in DOMAIN arcs :
          /\ i < j /\ Slot(arcs[i]) = Slot(arcs[j])
          /\ IsPlace(arcs[i].Source) /\ IsTransition(arcs[j].Source)
          /\ arcs[i].Weight # arcs[j].Weight
          /\ At(heap, Slot(arcs[j])) = arcs[j].Weight

\* C5: once the model is frozen, no call changes the arc ledger, the place
\* map, the transition map or the place count of that model.
C5_FrozenShape ==
    [][(frozen /\ ~imported /\ ~imported') =>
          /\ arcs' = arcs
          /\ Places' = Places
          /\ Transitions' = Transitions
          /\ VectorSize' = VectorSize]_vars

\* C6: Freeze on a frozen model (frozen earlier, overlaid by StateMachine, or
\* returned by FromAny) leaves every transition's Delta, values and length,
\* as it was.
C6_FreezeNoOp ==
    frozen =>
        \A k \in DOMAIN Transitions :
            FreezeResult.heap[Transitions[k]].Delta.A = heap[Transitions[k]].Delta.A

\* var i is the last var of its kind that names the place under key
LastCapacity(i) ==
    /\ mvars[i].varType = CapacityVar
    /\ \A j \in DOMAIN mvars :
          j > i => ~(mvars[j].varType = CapacityVar /\ mvars[j].Source = mvars[i].Source)

LastInitial(i) ==
    /\ mvars[i].varType = InitialVar
    /\ \A j \in DOMAIN mvars :
          j > i => ~(mvars[j].varType = InitialVar /\ mvars[j].Target = mvars[i].Target)

\* the var resolves as the overlay rules say: its place and, for a Weight var,
\* its transition are declared
Resolves(v) ==
    IF v.varType = CapacityVar THEN v.Source \in DOMAIN Places
    ELSE IF v.varType = InitialVar THEN v.Target \in DOMAIN Places
    ELSE \/ v.Source \in DOMAIN Transitions /\ v.Target \in DOMAIN Places
         \/ /\ v.Source \notin DOMAIN Transitions
            /\ v.Target \in DOMAIN Transitions
            /\ v.Source \in DOMAIN Places

\* the initial state vector of a net: the Initial of the place at each offset
InitialVector(n) ==
    [o \in 1..Cardinality(DOMAIN n.Places) |->
        n.Places[CHOOSE k \in DOMAIN n.Places : n.Places[k].Offset = o - 1].Initial]

\* some bound var of the kind names place "00" with value val, and it is the
\* last of its kind to do so
OverlaysCapacity(val) ==
    \E i \in DOMAIN mvars :
        LastCapacity(i) /\ mvars[i].Source = "00" /\ mvars[i].val = val /\ mvars[i].bound

OverlaysInitial(val) ==
    \E i \in DOMAIN mvars :
        LastInitial(i) /\ mvars[i].Target = "00" /\ mvars[i].val = val /\ mvars[i].bound

\* C7: in the net StateMachine() hands over, a bound Capacity var naming place
\* p makes p.Capacity the bound value and a bound Initial var naming p makes
\* p.Initial the bound value (the initial vector holds it at p.Offset); on the
\* counter model, p0.initial = 1 and p0.capacity = 5 give the initial vector
\* [1, 1] and capacity 5.  StateMachine() ends well when every var is bound
\* and resolves.
C7_CapacityInitial ==
    LET r == StateMachineResult IN
    ~imported =>
        /\ (\A i \in DOMAIN mvars : mvars[i].bound /\ Resolves(mvars[i])) => r.err = OK
        /\ r.err = OK =>
              /\ \A i \in DOMAIN mvars :
                    /\ LastCapacity(i) => r.net.Places[mvars[i].Source].Capacity = mvars[i].val
                    /\ LastInitial(i) =>
                          /\ r.net.Places[mvars[i].Target].Initial = mvars[i].val
                          /\ InitialVector(r.net)[Places[mvars[i].Target].Offset + 1]
                                = mvars[i].val
              /\ (OverlaysInitial(U(1)) /\ OverlaysCapacity(U(5))) =>
                    /\ InitialVector(r.net) = <<U(1), U(1)>>
                    /\ r.net.Places["00"].Capacity = U(5)

C7_Witness ==
    /\ ~imported /\ net.Has /\ StateMachineResult.err = OK /\ net = StateMachineResult.net
    /\ OverlaysInitial(U(1)) /\ OverlaysCapacity(U(5))
    /\ Places["00"].Initial = U(0) /\ Places["00"].Capacity = U(0)
    /\ InitialVector(net) = <<U(1), U(1)>>
    /\ net.Places["00"].Capacity = U(5)

\* the slot a Weight var writes to, and whether it reads as transition -> place
Produces(v) == v.Source \in DOMAIN Transitions

VarSlot(v) == IF Produces(v) THEN <<Transitions[v.Source], Places[v.Target].Offset>>
              ELSE <<Transitions[v.Target], Places[v.Source].Offset>>

\* var i is the last Weight var on its slot
LastWeight(i) ==
    /\ mvars[i].varType = WeightVar
    /\ \A j \in DOMAIN mvars :
          j > i => ~(mvars[j].varType = WeightVar /\ VarSlot(mvars[j]) = VarSlot(mvars[i]))

\* C8: a Weight var (source, target) whose source names a transition sets that
\* transition's delta at the place named by target to +value; otherwise, when
\* target names a transition, it sets that transition's delta at the place
\* named by source to -value; when neither names a transition or the place is
\* not declared, StateMachine() fails.
C8_WeightVar ==
    LET r == StateMachineResult IN
    ~imported =>
        /\ (\E i \in DOMAIN mvars : mvars[i].varType = WeightVar /\ ~Resolves(mvars[i]))
              => r.err # OK
        /\ r.err = OK =>
              \A i \in DOMAIN mvars :
                  LastWeight(i) =>
                      At(r.heap, VarSlot(mvars[i])) =
                          IF Produces(mvars[i]) THEN mvars[i].val ELSE Minus(mvars[i].val)

\* The statement of C8 holds for the values below 2^63.
WeightVarBelowTwo63 ==
    LET r == StateMachineResult IN
    (~imported /\ \A i \in DOMAIN mvars : Less(mvars[i].val, Two63)) =>
        /\ (\E i \in DOMAIN mvars : mvars[i].varType = WeightVar /\ ~Resolves(mvars[i]))
              => r.err # OK
        /\ r.err = OK =>
              \A i \in DOMAIN mvars :
                  LastWeight(i) =>
                      At(r.heap, VarSlot(mvars[i])) =
                          IF Produces(mvars[i]) THEN mvars[i].val ELSE Minus(mvars[i].val)

\* On the counter model, Weight(INC0, p0) bound to 2 makes INC0's delta at p0 +2.
WeightVarExample ==
    /\ ~imported /\ net.Has /\ StateMachineResult.err = OK /\ net = StateMachineResult.net
    /\ \E i \in DOMAIN mvars :
          /\ LastWeight(i) /\ mvars[i].Source = "INC0" /\ mvars[i].Target = "00"
          /\ mvars[i].val = U(2)
    /\ net.Transitions["INC0"].Delta.A = <<U(2), U(0)>>

\* what a Weight var writes to its slot
VarContribution(v) == IF Produces(v) THEN WeightProduce(v.val) ELSE WeightConsume(v.val)

\* C9: StateMachine() applies the vars in the order they were made: of the
\* vars that patch the same field or slot, the one made last decides the
\* value in the net handed over, also where an arc had compiled a value.
C9_LastVarWins ==
    LET r == StateMachineResult IN
    (~imported /\ r.err = OK) =>
        \A i \in DOMAIN mvars :
            /\ LastWeight(i) =>
                  r.net.Transitions[IF Produces(mvars[i]) THEN mvars[i].Source
                                    ELSE mvars[i].Target].Delta.A[VarSlot(mvars[i])[2] + 1]
                      = VarContribution(mvars[i])
            /\ LastCapacity(i) => r.net.Places[mvars[i].Source].Capacity = mvars[i].val
            /\ LastInitial(i) => r.net.Places[mvars[i].Target].Initial = mvars[i].val

C9_Witness ==
    /\ ~imported /\ net.Has /\ StateMachineResult.err = OK /\ net = StateMachineResult.net
    /\ Len(mvars) = 2
    /\ mvars[1].varType = WeightVar /\ mvars[2].varType = WeightVar
    /\ VarSlot(mvars[1]) = VarSlot(mvars[2])
    /\ VarSlot(mvars[1]) = Slot(arcs[3])
    /\ VarContribution(mvars[1]) # VarContribution(mvars[2])
    /\ VarContribution(mvars[2]) # Contribution(arcs[3])
    /\ net.Transitions["INC0"].Delta.A[1] = VarContribution(mvars[2])

\* what a snapshot reads as: its places, and the role and delta of its transitions
Data(n) ==
    [Places |-> n.Places,
     Transitions |-> [k \in DOMAIN n.Transitions |->
                        [Role |-> n.Transitions[k].Role, Delta |-> n.Transitions[k].Delta]]]

\* the snapshot the caller holds was made by a model it has left for an
\* imported one, and still shares arrays with that model's transitions
FromLeftModel ==
    imported /\ \E k \in DOMAIN net.Transitions : net.Transitions[k].at \in DOMAIN Base

\* C11: a snapshot returned by PTNet() or StateMachine() reads the same after
\* any later call on the model that returned it: Freeze, StateMachine() with
\* its overlays, PTNet, Marshal (making and binding vars and appending arcs
\* write nothing the snapshot holds).
C11_SnapshotKept ==
    (net.Has /\ ~FromLeftModel) =>
        /\ Data(Held(net, Reallocated, FreezeResult.heap)) = Data(net)
        /\ ~imported => Data(Held(net, Reallocated, StateMachineResult.heap)) = Data(net)
        /\ Data(Held(net, IF frozen THEN {} ELSE Reallocated, MarshalResult.heap)) = Data(net)

\* the snapshot taken earlier still shares arrays with the model, and a
\* StateMachine() call has since written an overlay the snapshot does not show
C11_Witness ==
    /\ net.Has /\ ~imported /\ frozen
    /\ net.Transitions["INC0"].Delta.A = <<U(1), U(0)>>
    /\ heap[Transitions["INC0"]].Delta.A = <<U(2), U(0)>>
    /\ \E i \in DOMAIN mvars : ~mvars[i].bound

\* C12: after StateMachine() has applied the vars, the model's own places and
\* transitions (what ToAny serializes and a later PTNet() copies) carry the
\* capacity, initial and delta values of the snapshot handed over.
C12_InPlace ==
    [][(StateMachine /\ StateMachineResult.err = OK) =>
          /\ Data(Snapshot(Places', Transitions', heap')) = Data(net')
          /\ ToAnyResult'.places = net'.Places
          /\ ToAnyResult'.transitions = Data(net').Transitions]_vars

\* The part of C12 about the deltas: after StateMachine() the model's
\* transitions carry the deltas of the snapshot handed over.
OverlaidDeltasInPlace ==
    [][(StateMachine /\ StateMachineResult.err = OK) =>
          ToAnyResult'.transitions = Data(net').Transitions]_vars

\* every transition of ts has a delta vector of length n
Populated(ts, n) ==
    \A k \in DOMAIN ts : ~ts[k].Delta.IsNil /\ Len(ts[k].Delta.A) = n

\* C13: whatever was declared and whether or not Freeze was called, what
\* PTNet(), StateMachine(), Marshal() and ToAny() return holds, for each
\* transition, a delta vector of length equal to the place count.
C13_SnapshotsCompiled ==
    ~imported =>
        /\ net.Has => Populated(net.Transitions, VectorSize)
        /\ MarshalResult.err = OK => Populated(MarshalResult.payload.transitions, VectorSize)
        /\ Populated(ToAnyResult.transitions, VectorSize)

\* The statement of C13 holds for PTNet(), StateMachine() and Marshal(), and
\* for ToAny() on a frozen model.
CompiledButToAny ==
    ~imported =>
        /\ net.Has => Populated(net.Transitions, VectorSize)
        /\ MarshalResult.err = OK => Populated(MarshalResult.payload.transitions, VectorSize)
        /\ frozen => Populated(ToAnyResult.transitions, VectorSize)

\* an arc place -> place or transition -> transition
Malformed(a) == a.Source.nodeType = a.Target.nodeType

\* C14: when the ledger holds an arc place -> place or transition ->
\* transition, Freeze fails with the malformed-arc panic and the model is not
\* frozen, so that no compiled model comes out of it.
C14_MalformedArc ==
    (\E i \in DOMAIN arcs : Malformed(arcs[i])) =>
        /\ FreezeResult.err = ErrBadArc
        /\ ~frozen

\* On a model that is not frozen yet, Freeze with such an arc in the ledger
\* ends in a panic and leaves the model not frozen.
MalformedArcBeforeFreeze ==
    (~frozen /\ \E i \in DOMAIN arcs : Malformed(arcs[i])) =>
        /\ FreezeResult.err \in {ErrBadArc, ErrIndex}
        /\ ~MarkFrozen(frozen, FreezeResult.err)

\* C15: Inhibitor(weight, target) appends its arc exactly when the receiver
\* is a place and the target is a transition; in every other orientation it
\* fails at once and the arc ledger stays as it was.  The ledger is that of
\* the model the handles come from: the ledger of a model imported since is
\* not written.
C15_InhibitorOrientation ==
    [][\A n \in nodes, c \in nodes :
          IF IsPlace(n) /\ IsTransition(c)
          THEN /\ InhibitorGuard(n, c) = OK
               /\ \A w \in Weights :
                     Inhibitor(n, w, c) =>
                         arcs' = IF imported THEN arcs
                                 ELSE Append(arcs, [Source |-> n, Target |-> c, Weight |-> w,
                                                    Type |-> INHIBITOR])
          ELSE /\ InhibitorGuard(n, c) = ErrInhibitor
               /\ arcs' # arcs => \A w \in Weights : ~Inhibitor(n, w, c)]_vars

C15_Witness ==
    /\ \E i \in DOMAIN arcs :
          /\ arcs[i].Type = INHIBITOR
          /\ IsPlace(arcs[i].Source) /\ IsTransition(arcs[i].Target)
    /\ \E n \in nodes, c \in nodes : IsPlace(n) /\ IsPlace(c)
    /\ \E n \in nodes, c \in nodes : IsTransition(n) /\ IsTransition(c)

\* var v is faulty: Bind was never called on it, or a name it refers to is
\* not declared
Faulty(v) == ~v.bound \/ ~Resolves(v)

\* C16: StateMachine() ends in a panic, handing over no state machine,
\* whenever some var of the model is unbound or refers to a place or
\* transition that is not declared, wherever that var sits in the list.
C16_FaultyVar ==
    ~imported =>
        ((\E i \in DOMAIN mvars : Faulty(mvars[i])) =>
            StateMachineResult.err \in {ErrUnbound, ErrBadVar})

\* StateMachine() has failed on the second var (unbound) after it had written
\* the overlay of the first one; no snapshot was handed over
C16_Witness ==
    /\ ~imported /\ frozen /\ ~net.Has
    /\ Len(mvars) = 2
    /\ ~Faulty(mvars[1]) /\ mvars[1].varType = WeightVar /\ mvars[1].val = U(2)
    /\ Resolves(mvars[2]) /\ ~mvars[2].bound
    /\ StateMachineResult.err = ErrUnbound
    /\ heap = StateMachineResult.heap
    /\ heap[Transitions["INC0"]].Delta.A = <<U(2), U(0)>>

\* StateMachine() has failed on a bound var that names an undeclared place
UnknownNameWitness ==
    /\ ~imported /\ frozen /\ ~net.Has
    /\ Len(mvars) = 2
    /\ ~Faulty(mvars[1])
    /\ mvars[2].bound /\ mvars[2].varType = CapacityVar /\ mvars[2].Source = "02"
    /\ StateMachineResult.err = ErrBadVar
    /\ heap = StateMachineResult.heap

\* C17: the frozen flag never goes back from true to false, whatever is
\* called (Freeze, PTNet, StateMachine, Marshal, ToAny, FromAny, the var
\* calls, declarations that fail); so it goes from false to true at most once.
C17_FrozenMonotonic == [][frozen => frozen']_vars

\* a frozen model on which Freeze has run again and ended in the malformed-arc
\* panic after compiling the arc before it
C17_Witness ==
    /\ frozen /\ ~imported
    /\ Len(arcs) = 2 /\ ~Malformed(arcs[1]) /\ Malformed(arcs[2])
    /\ FreezeResult.err = ErrBadArc
    /\ heap = FreezeResult.heap
    /\ At(heap, Slot(arcs[1])) = Contribution(arcs[1])

\* C18: Freeze compiles an Inhibitor arc from place p to transition t with
\* weight w like a normal arc place -> transition: t's delta at p.Offset is
\* -w (whatever an earlier arc on the pair had left there), and Freeze does
\* not reject the arc.
C18_InhibitorCompiled ==
    /\ Compiled =>
          \A i \in DOMAIN arcs :
              (arcs[i].Type = INHIBITOR /\ LastOnSlot(i)) =>
                  At(heap, Slot(arcs[i])) = Minus(arcs[i].Weight)
    /\ (\A i \in DOMAIN arcs : arcs[i].Type = INHIBITOR) => FreezeResult.err # ErrBadArc

\* Freeze writes for an Inhibitor arc what it writes for a normal arc place ->
\* transition of the same weight, and does not reject it.
InhibitorAsArc ==
    /\ Compiled =>
          \A i \in DOMAIN arcs :
              (arcs[i].Type = INHIBITOR /\ LastOnSlot(i)) =>
                  At(heap, Slot(arcs[i])) = ConsumeDelta(arcs[i].Weight)
    /\ (\A i \in DOMAIN arcs : arcs[i].Type = INHIBITOR) => FreezeResult.err # ErrBadArc

\* an Inhibitor arc was compiled over a normal arc on the same pair
InhibitorCompiledWitness ==
    /\ Compiled /\ Len(arcs) = 2
    /\ arcs[1].Type = ARC /\ arcs[2].Type = INHIBITOR
    /\ Slot(arcs[1]) = Slot(arcs[2])
    /\ arcs[1].Weight = U(1) /\ arcs[2].Weight = U(2)
    /\ At(heap, Slot(arcs[2])) = <<0, -2>>

Positive(x) == Less(Zero, x)

Negative(x) == Less(x, Zero)

\* C19: for every uint64 weight or bound value, what an arc or a Weight var
\* place -> transition leaves in the delta is never positive, and what an arc
\* or a Weight var transition -> place leaves is never negative.
C19_SignKept ==
    /\ Compiled =>
          \A i \in DOMAIN arcs :
              LastOnSlot(i) =>
                  IF IsPlace(arcs[i].Source) THEN ~Positive(At(heap, Slot(arcs[i])))
                  ELSE ~Negative(At(heap, Slot(arcs[i])))
    /\ (~imported /\ StateMachineResult.err = OK) =>
          \A i \in DOMAIN mvars :
              LastWeight(i) =>
                  IF Produces(mvars[i])
                  THEN ~Negative(At(StateMachineResult.heap, VarSlot(mvars[i])))
                  ELSE ~Positive(At(StateMachineResult.heap, VarSlot(mvars[i])))

\* the slots the Weight vars of the model write to
WeightSlots == {VarSlot(mvars[i]) : i \in {j \in DOMAIN mvars : mvars[j].varType = WeightVar}}

\* C20: a StateMachine() call that ends well changes only what its vars
\* target.  Against the model as Freeze compiles it, the net handed over has
\* the same places and transitions, every place offset and every role; a
\* Capacity or Initial differs only on a place a var of that kind names, a
\* delta slot differs only where a Weight var writes; the model's places,
\* transitions and place count stay.  A second call with the same bindings
\* hands over an equal net.
C20_OverlayFrame ==
    [][(UNCHANGED <<mvars, arcs, imported>> /\ StateMachine /\ net'.Has /\ StateMachineResult.err = OK) =>
          LET compiled == FreezeResult.heap
              again == StateMachineResult'
          IN
          /\ DOMAIN net'.Places = DOMAIN Places
          /\ DOMAIN net'.Transitions = DOMAIN Transitions
          /\ \A k \in DOMAIN Places :
                /\ net'.Places[k].Offset = Places[k].Offset
                /\ net'.Places[k].Capacity # Places[k].Capacity =>
                      \E i \in DOMAIN mvars :
                          mvars[i].varType = CapacityVar /\ mvars[i].Source = k
                /\ net'.Places[k].Initial # Places[k].Initial =>
                      \E i \in DOMAIN mvars :
                          mvars[i].varType = InitialVar /\ mvars[i].Target = k
          /\ \A k \in DOMAIN Transitions :
                /\ net'.Transitions[k].Role = heap[Transitions[k]].Role
                /\ Len(net'.Transitions[k].Delta.A) = VectorSize
                /\ \A o \in 0..(VectorSize - 1) :
                      net'.Transitions[k].Delta.A[o + 1] # At(compiled, <<Transitions[k], o>>)
                          => <<Transitions[k], o>> \in WeightSlots
          /\ Places' = Places /\ Transitions' = Transitions /\ VectorSize' = VectorSize
          /\ again.err = OK
          /\ Data(again.net) = Data(net')]_vars

\* StateMachine() has applied a Capacity var and a Weight var on the counter
\* model: one field of one place and one slot of one transition differ
C20_Witness ==
    /\ ~imported /\ net.Has /\ StateMachineResult.err = OK /\ net = StateMachineResult.net
    /\ Len(mvars) = 2
    /\ mvars[1].varType = CapacityVar /\ mvars[2].varType = WeightVar
    /\ net.Places = [Places EXCEPT !["00"].Capacity = U(5)]
    /\ net.Places # Places
    /\ net.Transitions["INC0"].Delta.A = <<U(2), U(0)>>
    /\ \A k \in DOMAIN Transitions \ {"INC0"} :
          net.Transitions[k].Delta = FreezeResult.heap[Transitions[k]].Delta

====
